---- MODULE Spec2Model ----
(***************************************************************************)
(* A model of aircraft_alert.py: the startup of AircraftMonitor.run, its   *)
(* polling loop (fetch, one step per raw record, prune, sleep), the        *)
(* ApiClient wrappers around the three external collaborators, and the     *)
(* classifier Aircraft.is_military / AircraftMonitor.is_favourite.         *)
(*                                                                         *)
(* Python values are tagged records: None, str (a sequence of one-char     *)
(* strings), numbers, coordinate tuples and raised exceptions.  A modelled *)
(* function returns either its value or Exc(name) when the Python function *)
(* would raise; an action that receives Exc lets it propagate, as Python   *)
(* does, which for run() means the exception escapes (pc = "crashed").     *)
(*                                                                         *)
(* Coordinates: every modelled point lies on the meridian of the monitored *)
(* point (dLon = 0) and latitudes are counted in units of 1/R radian, so   *)
(* that the haversine distance R * c is the integer |lat2 - lat1| km.      *)
(***************************************************************************)
EXTENDS Integers, Sequences, FiniteSets, TLC

VARIABLES
    pc,                  \* position of run(): start, fetch, for, sleep, returned, crashed
    config,              \* Config: radius_km, check_interval, favourites_file, uk_bounds
    center_coords,       \* run()'s local: None until geocoded
    favourites,          \* AircraftMonitor.favourites
    active_aircraft,     \* AircraftMonitor.active_aircraft
    aircraft_data,       \* run()'s local: the list get_aircraft_data returned
    idx,                 \* position of the for loop in aircraft_data (1-based)
    current_alert_icaos, \* run()'s local set of this cycle's hits
    escaped,             \* name of the exception that escaped run(), or "none"
    dispatches,          \* this cycle's send_alert calls: <<[i, outcome, result]>>
    fetch_status,        \* how this cycle's fetch ended: none, exception, non200, ok
    prev_status,         \* fetch_status of the previous cycle
    prev_hits,           \* the previous cycle's hit set (H(n-1))
    start_active,        \* active_aircraft when this cycle's fetch returned
    file_read,           \* favourites file: none (not read), ok, failed
    geocode_calls,       \* number of get_postcode_location calls
    fetch_calls,         \* number of get_aircraft_data calls (the cycle number)
    probe,               \* classifier harness: the Aircraft under test
    verdict,             \* classifier harness: unset, or the truth value returned
    prune_calls,         \* number of remove_inactive_aircraft calls
    sleep_calls          \* number of time.sleep calls

vars == <<pc, config, center_coords, favourites, active_aircraft, aircraft_data,
          idx, current_alert_icaos, escaped, dispatches, fetch_status,
          prev_status, prev_hits, start_active, file_read, geocode_calls,
          fetch_calls, probe, verdict, prune_calls, sleep_calls>>

\* ---------------------------------------------------------------- bounds
MaxCycles == 3
MaxFeed == 2

\* ------------------------------------------------------- Python values
None == [t |-> "none"]
Str(s) == [t |-> "str", s |-> s]
Num(n) == [t |-> "num", n |-> n]
Coord(lon, lat) == [t |-> "coord", lon |-> lon, lat |-> lat]
Exc(name) == [t |-> "exc", name |-> name]
IsExc(v) == v.t = "exc"
IsNone(v) == v.t = "none"
\* Python truthiness of a raw JSON field: None and "" are falsy.
Truthy(v) == CASE v.t = "none" -> FALSE
               [] v.t = "str" -> v.s # <<>>
               [] v.t = "num" -> v.n # 0
               [] OTHER -> TRUE

\* ------------------------------------------------------- str operations
LowerChars == <<"a","b","c","d","e","f","g","h","i","j","k","l","m",
                "n","o","p","q","r","s","t","u","v","w","x","y","z">>
UpperChars == <<"A","B","C","D","E","F","G","H","I","J","K","L","M",
                "N","O","P","Q","R","S","T","U","V","W","X","Y","Z">>
Whitespace == {" ", "\n"}

UpperOf == [c \in {LowerChars[i] : i \in 1..Len(LowerChars)} |->
              UpperChars[CHOOSE i \in 1..Len(LowerChars) : LowerChars[i] = c]]
LowerOf == [c \in {UpperChars[i] : i \in 1..Len(UpperChars)} |->
              LowerChars[CHOOSE i \in 1..Len(UpperChars) : UpperChars[i] = c]]
UpperChar(c) == IF c \in DOMAIN UpperOf THEN UpperOf[c] ELSE c
LowerChar(c) == IF c \in DOMAIN LowerOf THEN LowerOf[c] ELSE c
\* str.upper() / str.lower()
Upper(s) == [i \in 1..Len(s) |-> UpperChar(s[i])]
Lower(s) == [i \in 1..Len(s) |-> LowerChar(s[i])]
\* str.startswith(p) and str.startswith(tuple)
StartsWith(s, p) == Len(p) <= Len(s) /\ SubSeq(s, 1, Len(p)) = p
StartsWithAny(s, ps) == \E p \in ps : StartsWith(s, p)
\* str.strip()
RECURSIVE LStrip(_)
LStrip(s) == IF s # <<>> /\ Head(s) \in Whitespace THEN LStrip(Tail(s)) ELSE s
RECURSIVE RStrip(_)
RStrip(s) == IF s # <<>> /\ s[Len(s)] \in Whitespace
             THEN RStrip(SubSeq(s, 1, Len(s) - 1)) ELSE s
Strip(s) == RStrip(LStrip(s))

\* ------------------------------------------------------ more values
Bool(b) == [t |-> "bool", b |-> b]
SetOf(S) == [t |-> "set", items |-> S]
List(q) == [t |-> "list", items |-> q]

\* Earth radius in km (_haversine_distance).
R == 6371
\* Config defaults.
DefaultRadiusKm == 15
DefaultCheckInterval == 120

Abs(n) == IF n < 0 THEN -n ELSE n

\* ----------------------------------------------------------- ApiClient
\* A geocoder reply: the request raised, or a JSON body with a status and,
\* for status 200, a result holding longitude and latitude.
get_postcode_location_unguarded(reply) ==
    IF reply.kind = "raise" THEN Exc("RequestException")
    ELSE IF reply.status = 200 THEN Coord(reply.longitude, reply.latitude)
    ELSE None
get_postcode_location(reply) ==
    IF reply.kind = "raise" THEN None
    ELSE IF reply.status = 200 THEN Coord(reply.longitude, reply.latitude)
    ELSE None

\* A state-service reply: the request raised, or an HTTP response with a
\* status code and a body that is invalid JSON or an object whose 'states'
\* key is absent, null or a list.
get_aircraft_data_unguarded(reply) ==
    IF reply.kind = "raise" THEN Exc("RequestException")
    ELSE IF reply.status_code # 200 THEN List(<<>>)
    ELSE IF ~reply.body.valid THEN Exc("JSONDecodeError")
    ELSE IF reply.body.has_states /\ Truthy(reply.body.states)
         THEN reply.body.states
         ELSE List(<<>>)
get_aircraft_data(reply) ==
    IF reply.kind = "raise" THEN List(<<>>)
    ELSE IF reply.status_code # 200 THEN List(<<>>)
    ELSE IF ~reply.body.valid THEN List(<<>>)
    ELSE IF reply.body.has_states /\ Truthy(reply.body.states)
         THEN reply.body.states
         ELSE List(<<>>)

\* The notifier's outcome: delivered, failed (notify returned False), raise.
send_alert_unguarded(outcome) ==
    CASE outcome = "delivered" -> Bool(TRUE)
      [] outcome = "failed" -> Bool(FALSE)
      [] OTHER -> Exc("NotifyError")
send_alert(outcome) ==
    CASE outcome = "delivered" -> Bool(TRUE)
      [] outcome = "failed" -> Bool(FALSE)
      [] OTHER -> Bool(FALSE)

\* ------------------------------------------------------------ Aircraft
\* data is a raw state vector; Python indexes it from 0, the model from 1.
from_api_data(data) ==
    IF Len(data) < 7 THEN Exc("IndexError")
    ELSE [t |-> "aircraft",
          icao24 |-> data[1],
          callsign |-> IF Truthy(data[2]) THEN Str(Strip(data[2].s)) ELSE Str(<<>>),
          type_code |-> IF Truthy(data[3]) THEN data[3] ELSE Str(<<>>),
          longitude |-> data[6],
          latitude |-> data[7]]

military_prefixes == {<<"4","3">>, <<"A","E">>}
military_callsigns ==
    {<<"M","I","L">>, <<"N","O","W">>, <<"A","R","R">>, <<"R","R","R">>,
     <<"R","A","F">>, <<"N","A","T","O">>, <<"A","A","C">>, <<"N","A","F">>,
     <<"P","L","F">>, <<"T","T","N">>, <<"X","X","X","X">>,
     <<"0","0","0","0","0","0","0","0">>}

\* The truth value of the returned expression (a falsy "" counts as False).
is_military_no_prefix(aircraft) ==
    IF aircraft.icao24.t # "str" THEN Exc("AttributeError")
    ELSE Bool(\/ StartsWithAny(aircraft.callsign.s, military_callsigns)
              \/ (aircraft.type_code.s # <<>>
                  /\ StartsWith(aircraft.type_code.s, <<"1","9">>)))
is_military(aircraft) ==
    IF aircraft.icao24.t # "str" THEN Exc("AttributeError")
    ELSE Bool(\/ StartsWithAny(Upper(aircraft.icao24.s), military_prefixes)
              \/ StartsWithAny(aircraft.callsign.s, military_callsigns)
              \/ (aircraft.type_code.s # <<>>
                  /\ StartsWith(aircraft.type_code.s, <<"1","9">>)))

\* ----------------------------------------------------- AircraftMonitor
\* file: the favourites file, unreadable or a sequence of lines.
load_favourites_unguarded(file) ==
    IF ~file.readable THEN Exc("OSError")
    ELSE SetOf({Upper(Strip(file.lines[i])) :
                  i \in {j \in 1..Len(file.lines) : Strip(file.lines[j]) # <<>>}})
load_favourites(file) ==
    IF ~file.readable THEN SetOf({})
    ELSE SetOf({Upper(Strip(file.lines[i])) :
                  i \in {j \in 1..Len(file.lines) : Strip(file.lines[j]) # <<>>}})

is_favourite_exact_case(aircraft, favs) ==
    IF aircraft.icao24.t # "str" THEN Exc("AttributeError")
    ELSE Bool(\/ aircraft.icao24.s \in favs
              \/ (IF aircraft.callsign.s # <<>>
                  THEN Upper(Strip(aircraft.callsign.s)) ELSE <<>>) \in favs)
is_favourite(aircraft, favs) ==
    IF aircraft.icao24.t # "str" THEN Exc("AttributeError")
    ELSE Bool(\/ Upper(aircraft.icao24.s) \in favs
              \/ (IF aircraft.callsign.s # <<>>
                  THEN Upper(Strip(aircraft.callsign.s)) ELSE <<>>) \in favs)

\* On the modelled meridian dLon = 0, so a = sin(dLat/2)^2 and
\* c = 2*atan2(sqrt(a), sqrt(1-a)) = |dLat|; with latitudes in units of 1/R
\* radian, R * c = |lat2 - lat1|.  A None operand makes the subtraction raise.
_haversine_distance(coord1, coord2) ==
    IF coord1.lon.t # "num" \/ coord1.lat.t # "num"
       \/ coord2.lon.t # "num" \/ coord2.lat.t # "num"
    THEN Exc("TypeError")
    ELSE Num((R * Abs(coord2.lat.n - coord1.lat.n)) \div R)

calculate_position(aircraft, center) ==
    LET distance == _haversine_distance(center,
                        Coord(aircraft.longitude, aircraft.latitude))
    IN IF IsExc(distance) THEN distance
       ELSE [t |-> "dict", distance |-> distance.n]

is_aircraft_active(active, icao24) == icao24 \in active
mark_aircraft_active_noop(active, icao24) == active
mark_aircraft_active_replace(active, icao24) == {icao24}
mark_aircraft_active(active, icao24) == active \cup {icao24}
remove_inactive_aircraft_keep(active, current_icaos) == active
remove_inactive_aircraft(active, current_icaos) == active \cap current_icaos

\* The condition of run()'s if statement, evaluated left to right with
\* Python's short circuits: Bool, or the exception a classifier raised.
alert_condition_either(position, aircraft, cfg, favs) ==
    IF position.distance <= cfg.radius_km THEN Bool(TRUE)
    ELSE LET mil == is_military(aircraft)
         IN IF IsExc(mil) \/ mil.b THEN mil ELSE is_favourite(aircraft, favs)
alert_condition(position, aircraft, cfg, favs) ==
    IF ~(position.distance <= cfg.radius_km) THEN Bool(FALSE)
    ELSE LET mil == is_military(aircraft)
         IN IF IsExc(mil) \/ mil.b THEN mil ELSE is_favourite(aircraft, favs)

\* ------------------------------------------------- the environment
\* Geocoder replies: the request raises, "not found", or a coordinate.
CenterLat == 100
GeoReplies ==
    {[kind |-> "raise"],
     [kind |-> "json", status |-> 404],
     [kind |-> "json", status |-> 200, longitude |-> Num(0), latitude |-> Num(CenterLat)]}

\* The favourites file: unreadable, or lines " delta1 \n" and a blank line.
FavFiles ==
    {[readable |-> FALSE],
     [readable |-> TRUE,
      lines |-> << <<" ","d","e","l","t","a","1"," ","\n">>, <<" ","\n">> >>]}

\* Raw state vectors: identifier, callsign, type code, two unused fields,
\* longitude, latitude.
StateVector(icao24, callsign, type_code, lat) ==
    <<icao24, callsign, type_code, None, None, Num(0), lat>>
Id43ab12 == <<"4","3","a","b","1","2">>
Id43AB12 == <<"4","3","A","B","1","2">>
Idzz0000 == <<"z","z","0","0","0","0">>
Id4ca123 == <<"4","c","a","1","2","3">>
CsMILOPS == <<"M","I","L","O","P","S"," "," ">>
CsDELTA1 == <<"D","E","L","T","A","1">>
CsRRR123 == <<"R","R","R","1","2","3">>
RawStates ==
    {StateVector(Str(Id43ab12), Str(CsMILOPS), None, Num(CenterLat + 6)),
     StateVector(Str(Id43ab12), Str(CsMILOPS), None, Num(CenterLat + 16)),
     StateVector(Str(Id43AB12), Str(CsMILOPS), None, Num(CenterLat + 6)),
     StateVector(Str(Idzz0000), Str(CsDELTA1), Str(<<>>), Num(CenterLat - 6)),
     StateVector(Str(Id4ca123), Str(CsRRR123), None, Num(CenterLat + 15)),
     StateVector(Str(Id4ca123), Str(CsRRR123), None, None),
     StateVector(None, Str(CsRRR123), None, Num(CenterLat + 6)),
     <<Str(Id43ab12)>>}

RECURSIVE SeqsUpTo(_, _)
SeqsUpTo(S, n) ==
    IF n = 0 THEN {<<>>}
    ELSE LET shorter == SeqsUpTo(S, n - 1)
         IN shorter \cup {Append(q, x) : q \in shorter, x \in S}
Feeds == SeqsUpTo(RawStates, MaxFeed)

HttpReply(code, body) == [kind |-> "http", status_code |-> code, body |-> body]
StateReplies ==
    {[kind |-> "raise"],
     HttpReply(503, [valid |-> FALSE]),
     HttpReply(200, [valid |-> FALSE]),
     HttpReply(200, [valid |-> TRUE, has_states |-> FALSE, states |-> None]),
     HttpReply(200, [valid |-> TRUE, has_states |-> TRUE, states |-> None])}
    \cup {HttpReply(200, [valid |-> TRUE, has_states |-> TRUE, states |-> List(f)]) :
            f \in Feeds}
\* How the fetch ended, as the caller of get_aircraft_data cannot see it.
FetchStatus(reply) ==
    IF reply.kind = "raise" THEN "exception"
    ELSE IF reply.status_code # 200 THEN "non200"
    ELSE "ok"

NotifyOutcomes == {"delivered", "failed", "raise"}

\* Config.__post_init__: the bounding box, in tenths of a degree.
uk_bounds == [lamin |-> 495, lamax |-> 610, lomin |-> 0 - 90, lomax |-> 20]

\* ------------------------------------------------------------- run()
InitMonitor ==
    /\ pc = "start"
    /\ config \in {[radius_km |-> DefaultRadiusKm,
                    check_interval |-> DefaultCheckInterval,
                    uk_bounds |-> uk_bounds,
                    favourites_file |-> f] :
                     f \in {None, Str(<<"f","a","v","s">>)}}
    /\ center_coords = None
    /\ favourites = {}
    /\ active_aircraft = {}
    /\ aircraft_data = <<>>
    /\ idx = 1
    /\ current_alert_icaos = {}
    /\ escaped = "none"
    /\ dispatches = <<>>
    /\ fetch_status = "none"
    /\ prev_status = "none"
    /\ prev_hits = {}
    /\ start_active = {}
    /\ file_read = "none"
    /\ geocode_calls = 0
    /\ fetch_calls = 0
    /\ prune_calls = 0
    /\ sleep_calls = 0

Init ==
    /\ InitMonitor
    /\ probe = None
    /\ verdict = "unset"

\* The set of identifiers whose record in feed satisfies the combined
\* predicate (in range and military-or-favourite): the cycle's hit set.
IsHit(data, center, cfg, favs) ==
    LET aircraft == from_api_data(data)
        position == calculate_position(aircraft, center)
        cond == alert_condition(position, aircraft, cfg, favs)
    IN /\ ~IsExc(aircraft)
       /\ ~IsExc(position)
       /\ ~IsExc(cond)
       /\ cond.b
HitSet(feed) ==
    {from_api_data(feed[i]).icao24 :
       i \in {j \in 1..Len(feed) : IsHit(feed[j], center_coords, config, favourites)}}

Crash(name) ==
    /\ pc' = "crashed"
    /\ escaped' = name

\* Lines 201-211: geocode, then load the favourites, then enter the loop.
Startup ==
    /\ pc = "start"
    /\ \E reply \in GeoReplies, file \in FavFiles :
         LET coords == get_postcode_location(reply)
             reads == ~IsExc(coords) /\ Truthy(coords) /\ Truthy(config.favourites_file)
             loaded == IF reads THEN load_favourites(file) ELSE SetOf(favourites)
         IN /\ geocode_calls' = geocode_calls + 1
            /\ file_read' = IF ~reads THEN "none"
                            ELSE IF file.readable THEN "ok" ELSE "failed"
            /\ IF IsExc(coords)
               THEN Crash(coords.name) /\ UNCHANGED <<center_coords, favourites>>
               ELSE /\ center_coords' = coords
                    /\ IF ~Truthy(coords)
                       THEN /\ pc' = "returned"
                            /\ UNCHANGED <<favourites, escaped>>
                       ELSE IF IsExc(loaded)
                       THEN Crash(loaded.name) /\ UNCHANGED favourites
                       ELSE /\ favourites' = loaded.items
                            /\ pc' = "fetch"
                            /\ UNCHANGED escaped
    /\ UNCHANGED <<config, active_aircraft, aircraft_data, idx, current_alert_icaos,
                   dispatches, fetch_status, prev_status, prev_hits, start_active,
                   fetch_calls, probe, verdict, prune_calls, sleep_calls>>

\* Lines 214-216: the top of the loop body.
Fetch ==
    /\ pc = "fetch"
    /\ fetch_calls < MaxCycles
    /\ \E reply \in StateReplies :
         LET data == get_aircraft_data(reply)
         IN /\ fetch_calls' = fetch_calls + 1
            /\ fetch_status' = FetchStatus(reply)
            /\ start_active' = active_aircraft
            /\ dispatches' = <<>>
            /\ IF IsExc(data)
               THEN Crash(data.name)
                    /\ UNCHANGED <<aircraft_data, idx, current_alert_icaos>>
               ELSE /\ aircraft_data' = data.items
                    /\ current_alert_icaos' = {}
                    /\ idx' = 1
                    /\ pc' = "for"
                    /\ UNCHANGED escaped
    /\ UNCHANGED <<config, center_coords, favourites, active_aircraft, file_read,
                   geocode_calls, prev_status, prev_hits, probe, verdict,
                   prune_calls, sleep_calls>>

\* Lines 218-233: one iteration of the for loop.
ForBody ==
    /\ pc = "for"
    /\ idx <= Len(aircraft_data)
    /\ \E outcome \in NotifyOutcomes :
         LET aircraft == from_api_data(aircraft_data[idx])
             position == calculate_position(aircraft, center_coords)
             cond == alert_condition(position, aircraft, config, favourites)
             sent == send_alert(outcome)
         IN IF IsExc(aircraft)
            THEN Crash(aircraft.name)
                 /\ UNCHANGED <<idx, current_alert_icaos, active_aircraft, dispatches>>
            ELSE IF IsExc(position)
            THEN Crash(position.name)
                 /\ UNCHANGED <<idx, current_alert_icaos, active_aircraft, dispatches>>
            ELSE IF IsExc(cond)
            THEN Crash(cond.name)
                 /\ UNCHANGED <<idx, current_alert_icaos, active_aircraft, dispatches>>
            ELSE IF ~cond.b
            THEN /\ idx' = idx + 1
                 /\ UNCHANGED <<pc, escaped, current_alert_icaos, active_aircraft,
                                dispatches>>
            ELSE /\ current_alert_icaos' = current_alert_icaos \cup {aircraft.icao24}
                 /\ IF is_aircraft_active(active_aircraft, aircraft.icao24)
                    THEN /\ idx' = idx + 1
                         /\ UNCHANGED <<pc, escaped, active_aircraft, dispatches>>
                    ELSE /\ dispatches' = Append(dispatches,
                                [i |-> idx, outcome |-> outcome, result |-> sent])
                         /\ IF IsExc(sent)
                            THEN Crash(sent.name) /\ UNCHANGED <<idx, active_aircraft>>
                            ELSE /\ active_aircraft' =
                                      mark_aircraft_active(active_aircraft, aircraft.icao24)
                                 /\ idx' = idx + 1
                                 /\ UNCHANGED <<pc, escaped>>
    /\ UNCHANGED <<config, center_coords, favourites, aircraft_data, fetch_status,
                   prev_status, prev_hits, start_active, file_read, geocode_calls,
                   fetch_calls, probe, verdict, prune_calls, sleep_calls>>

PruneNoSleep ==
    /\ pc = "for"
    /\ idx > Len(aircraft_data)
    /\ active_aircraft' = remove_inactive_aircraft(active_aircraft, current_alert_icaos)
    /\ pc' = "fetch"
    /\ prune_calls' = prune_calls + 1
    /\ UNCHANGED <<config, center_coords, favourites, aircraft_data, idx,
                   current_alert_icaos, escaped, dispatches, fetch_status, prev_status,
                   prev_hits, start_active, file_read, geocode_calls, fetch_calls,
                   probe, verdict, sleep_calls>>
\* Line 235: after the for loop.
Prune ==
    /\ pc = "for"
    /\ idx > Len(aircraft_data)
    /\ active_aircraft' = remove_inactive_aircraft(active_aircraft, current_alert_icaos)
    /\ pc' = "sleep"
    /\ prune_calls' = prune_calls + 1
    /\ UNCHANGED <<config, center_coords, favourites, aircraft_data, idx,
                   current_alert_icaos, escaped, dispatches, fetch_status, prev_status,
                   prev_hits, start_active, file_read, geocode_calls, fetch_calls,
                   probe, verdict, sleep_calls>>

\* Line 236, and back to the top of "while True".  The locals of the finished
\* iteration are dead from here on (lines 214-215 reassign them before any
\* read), so the model drops them together with the cycle's dispatch log.
Sleep ==
    /\ pc = "sleep"
    /\ pc' = "fetch"
    /\ prev_status' = fetch_status
    /\ prev_hits' = HitSet(aircraft_data)
    /\ aircraft_data' = <<>>
    /\ idx' = 1
    /\ current_alert_icaos' = {}
    /\ dispatches' = <<>>
    /\ fetch_status' = "none"
    /\ start_active' = active_aircraft
    /\ sleep_calls' = sleep_calls + 1
    /\ UNCHANGED <<config, center_coords, favourites, active_aircraft, escaped,
                   file_read, geocode_calls, fetch_calls, probe, verdict,
                   prune_calls>>

Next == Startup \/ Fetch \/ ForBody \/ Prune \/ Sleep

Spec == Init /\ [][Next]_vars

\* ------------------------------------------------ what a cycle did
\* The identifiers send_alert was called for in this cycle.
Alerted ==
    {from_api_data(aircraft_data[dispatches[k].i]).icao24 : k \in 1..Len(dispatches)}
\* This cycle's hit set Hn, from the whole feed.
Hits == HitSet(aircraft_data)
\* The classifier's answers as plain truth values (an exception is no answer).
Military(aircraft) ==
    LET m == is_military(aircraft) IN ~IsExc(m) /\ m.b
Favourite(aircraft) ==
    LET f == is_favourite(aircraft, favourites) IN ~IsExc(f) /\ f.b
WellFormed(data) ==
    /\ Len(data) >= 7
    /\ data[1].t = "str"
    /\ data[6].t = "num"
    /\ data[7].t = "num"
DistanceOf(data) == Abs(data[7].n - center_coords.lat.n)

\* C1: an identifier is notified in cycle n if and only if it is in Hn and
\* was not in H(n-1): when a cycle is over, whether run() went on to sleep or
\* the cycle was cut short, the identifiers notified in it are exactly
\* Hn \ H(n-1).
C1_AlertIffNewHit ==
    (fetch_calls >= 1 /\ pc \in {"sleep", "crashed"}) => Alerted = Hits \ prev_hits
\* C1, on the cycles that reach line 235: only identifiers of Hn \ H(n-1)
\* are ever notified, each once, and all of them by the end of the cycle.
C1_CompletedCycles ==
    /\ Alerted \subseteq (Hits \ prev_hits)
    /\ Len(dispatches) = Cardinality(Alerted)
    /\ pc = "sleep" => Alerted = Hits \ prev_hits

\* C2: ActiveSet is empty before the first cycle, and after
\* remove_inactive_aircraft it is exactly the cycle's set of hits.
C2_ActiveEqualsHits ==
    /\ fetch_calls = 0 => active_aircraft = {}
    /\ pc = "sleep" => /\ active_aircraft = current_alert_icaos
                       /\ active_aircraft = Hits
\* The end of a cycle that both added a new hit and pruned an old one.
C2_Witness ==
    /\ pc = "sleep"
    /\ prev_hits \ Hits # {}
    /\ Hits \ prev_hits # {}

\* C3: once the loop is entered no error escapes a polling cycle, whatever
\* the fetch returned and whatever the notifier did.
C3_NoErrorEscapes ==
    fetch_calls >= 1 => (pc # "crashed" /\ escaped = "none")

\* C4: a cycle whose fetch raised or returned a non-200 status is processed
\* as an empty list (no dispatch, no crash), it leaves ActiveSet empty, and
\* the cycle after it alerts every hit among the records it has examined.
FetchFailed(status) == status \in {"exception", "non200"}
C4_FetchFailureIsEmptyCycle ==
    /\ FetchFailed(fetch_status) =>
          /\ aircraft_data = <<>>
          /\ dispatches = <<>>
          /\ pc \in {"for", "sleep"}
    /\ (FetchFailed(prev_status) /\ pc = "fetch") => active_aircraft = {}
    /\ FetchFailed(prev_status) =>
          Alerted = {aircraft_data[i][1] :
                       i \in {j \in 1..Len(aircraft_data) :
                                /\ j < idx
                                /\ IsHit(aircraft_data[j], center_coords, config,
                                         favourites)}}
\* A cycle after a failed fetch that dispatched an alert.
C4_Witness ==
    /\ FetchFailed(prev_status)
    /\ pc = "sleep"
    /\ Alerted # {}

\* C5: whenever the loop reaches a hit that is not in ActiveSet, a dispatch
\* is attempted for it and the loop goes on to the next record, whatever the
\* outcomes of this and of the earlier dispatches of the cycle.
C5_DispatchFailureDoesNotStopCycle ==
    [][(/\ pc = "for"
        /\ idx <= Len(aircraft_data)
        /\ IsHit(aircraft_data[idx], center_coords, config, favourites)
        /\ ~is_aircraft_active(active_aircraft, aircraft_data[idx][1]))
       => (/\ dispatches' # <<>>
           /\ Len(dispatches') = Len(dispatches) + 1
           /\ dispatches'[Len(dispatches')].i = idx
           /\ pc' = "for"
           /\ idx' = idx + 1)]_vars
\* A dispatch made after an earlier dispatch of the same cycle failed or raised.
C5_Witness ==
    /\ Len(dispatches) >= 2
    /\ dispatches[1].outcome # "delivered"

\* C6: every dispatch is for a record within the radius (a distance equal to
\* the radius included) that is military or favourite; nothing else is
\* counted as a hit or enters ActiveSet, and a military or favourite record
\* exactly at the radius is counted as a hit.
C6_OnlyHitsAlert ==
    /\ \A k \in 1..Len(dispatches) :
          LET data == aircraft_data[dispatches[k].i]
          IN /\ WellFormed(data)
             /\ DistanceOf(data) <= config.radius_km
             /\ (Military(from_api_data(data)) \/ Favourite(from_api_data(data)))
    /\ \A icao24 \in current_alert_icaos \cup (active_aircraft \ start_active) :
          \E i \in 1..Len(aircraft_data) :
             /\ WellFormed(aircraft_data[i])
             /\ aircraft_data[i][1] = icao24
             /\ DistanceOf(aircraft_data[i]) <= config.radius_km
             /\ (Military(from_api_data(aircraft_data[i]))
                 \/ Favourite(from_api_data(aircraft_data[i])))
    /\ \A i \in 1..Len(aircraft_data) :
          (/\ i < idx
           /\ WellFormed(aircraft_data[i])
           /\ DistanceOf(aircraft_data[i]) = config.radius_km
           /\ Military(from_api_data(aircraft_data[i])))
          => aircraft_data[i][1] \in current_alert_icaos
\* An alert dispatched for an aircraft exactly at the radius.
C6_Witness ==
    \E k \in 1..Len(dispatches) :
       DistanceOf(aircraft_data[dispatches[k].i]) = config.radius_km

\* C7: when the geocoder fails, run() returns at once: no fetch, no dispatch,
\* no favourites load, an empty ActiveSet and a single geocode call.
C7_GeocodeFailureIsFatal ==
    (geocode_calls >= 1 /\ ~Truthy(center_coords)) =>
       /\ pc = "returned"
       /\ geocode_calls = 1
       /\ fetch_calls = 0
       /\ fetch_status = "none"
       /\ dispatches = <<>>
       /\ file_read = "none"
       /\ favourites = {}
       /\ active_aircraft = {}
\* run() has returned although a favourites file was configured.
C7_Witness ==
    /\ pc = "returned"
    /\ Truthy(config.favourites_file)

\* C8: when the favourites file cannot be read, favourites is empty, the
\* loop is entered all the same, no aircraft is a favourite and every hit
\* is military.
C8_FavouritesFailureNonFatal ==
    file_read = "failed" =>
       /\ favourites = {}
       /\ pc \in {"fetch", "for", "sleep", "crashed"}
       /\ (pc = "crashed" => fetch_calls >= 1)
       /\ \A i \in 1..Len(aircraft_data) :
             WellFormed(aircraft_data[i]) =>
                /\ ~Favourite(from_api_data(aircraft_data[i]))
                /\ (aircraft_data[i][1] \in current_alert_icaos
                    => \E j \in 1..Len(aircraft_data) :
                          /\ WellFormed(aircraft_data[j])
                          /\ aircraft_data[j][1] = aircraft_data[i][1]
                          /\ Military(from_api_data(aircraft_data[j])))
\* An alert dispatched in a run whose favourites file could not be read.
C8_Witness ==
    /\ file_read = "failed"
    /\ dispatches # <<>>

\* ------------------------------------------- the classifier harness
\* Aircraft built from every combination of probe identifiers, callsigns and
\* type codes; Classify applies is_military to the probe.
Aircraft(icao24, callsign, type_code) ==
    [t |-> "aircraft", icao24 |-> Str(icao24), callsign |-> Str(callsign),
     type_code |-> Str(type_code), longitude |-> Num(0), latitude |-> Num(CenterLat)]

\* Around a token: itself, its lower case, one character short, one
\* character more, and shifted by a leading character.
MaxSuffix == 1
RECURSIVE Pad(_, _)
Pad(s, n) == IF n = 0 THEN s ELSE Pad(Append(s, "1"), n - 1)
Around(tok) ==
    {tok, Lower(tok), SubSeq(tok, 1, Len(tok) - 1), <<"X">> \o tok}
    \cup {Pad(tok, n) : n \in 1..MaxSuffix}
    \cup {Pad(Lower(tok), n) : n \in 1..MaxSuffix}

ProbePrefixes == {<<"4","3">>, <<"A","E">>}
ProbeTokens ==
    {<<"M","I","L">>, <<"N","O","W">>, <<"A","R","R">>, <<"R","R","R">>,
     <<"R","A","F">>, <<"N","A","T","O">>, <<"A","A","C">>, <<"N","A","F">>,
     <<"P","L","F">>, <<"T","T","N">>, <<"X","X","X","X">>,
     <<"0","0","0","0","0","0","0","0">>}
Id43abcd == <<"4","3","a","b","c","d">>
ProbeIdentifiers ==
    {<<>>, Id43abcd, Idzz0000} \cup UNION {Around(p) : p \in ProbePrefixes}
ProbeCallsigns ==
    {<<>>, CsDELTA1, CsRRR123, Lower(CsRRR123)} \cup UNION {Around(tok) : tok \in ProbeTokens}
ProbeTypeCodes ==
    {<<>>} \cup Around(<<"1","9">>)
ProbeAircraft ==
    {Aircraft(i, c, tc) : i \in ProbeIdentifiers, c \in ProbeCallsigns, tc \in ProbeTypeCodes}

VerdictOf(result) ==
    IF IsExc(result) THEN "raised" ELSE IF result.b THEN "true" ELSE "false"

InitMil ==
    /\ InitMonitor
    /\ probe \in ProbeAircraft
    /\ verdict = "unset"

Classify ==
    /\ verdict = "unset"
    /\ probe.t = "aircraft"
    /\ verdict' = VerdictOf(is_military(probe))
    /\ UNCHANGED <<pc, config, center_coords, favourites, active_aircraft,
                   aircraft_data, idx, current_alert_icaos, escaped, dispatches,
                   fetch_status, prev_status, prev_hits, start_active, file_read,
                   geocode_calls, fetch_calls, probe,
                   prune_calls, sleep_calls>>

NextMil == Classify

SpecMil == InitMil /\ [][NextMil]_vars

\* The aircraft that differ from a only in the letter case of the
\* identifier or of the callsign.
CaseVariants(a) ==
    {[a EXCEPT !.icao24 = Str(i), !.callsign = Str(c)] :
       i \in {a.icao24.s, Upper(a.icao24.s), Lower(a.icao24.s)},
       c \in {a.callsign.s, Upper(a.callsign.s), Lower(a.callsign.s)}}

\* C9: changing the letter case of the identifier or of the callsign does
\* not change the result of is_military.
C9_CaseInsensitive ==
    verdict # "unset" =>
       \A v \in CaseVariants(probe) : VerdictOf(is_military(v)) = verdict

\* s begins with a member of P.
HasPrefixIn(s, P) == \E n \in 1..Len(s) : SubSeq(s, 1, n) \in P

\* C10: is_military is true exactly when the (case-normalized) identifier
\* starts with "43" or "AE", or the callsign starts with one of the twelve
\* tokens, or a non-empty type code starts with "19"; the three examples of
\* the specification come out true, true and false.
C10_MilitaryExactly ==
    verdict # "unset" =>
       /\ (verdict = "true") <=>
             \/ HasPrefixIn(Upper(probe.icao24.s), ProbePrefixes)
             \/ HasPrefixIn(probe.callsign.s, ProbeTokens)
             \/ (probe.type_code.s # <<>> /\ HasPrefixIn(probe.type_code.s, {<<"1","9">>}))
       /\ verdict \in {"true", "false"}
       /\ probe.icao24.s = Id43abcd => verdict = "true"
       /\ (probe.icao24.s = Idzz0000 /\ probe.callsign.s = CsRRR123) => verdict = "true"
       /\ (probe.icao24.s = Idzz0000 /\ probe.callsign.s = CsDELTA1
           /\ probe.type_code.s = <<>>) => verdict = "false"
\* The third example, classified: not military.
C10_Witness ==
    /\ verdict = "false"
    /\ probe.icao24.s = Idzz0000
    /\ probe.callsign.s = CsDELTA1
    /\ probe.type_code.s = <<>>


\* ------------------------------------------- the favourites harness
\* LoadFavourites reads one of the probe files with load_favourites, then
\* ClassifyFavourite applies is_favourite to the probe aircraft.
IdGABCD == <<"G","-","A","B","C","D">>
FavProbeFiles ==
    {[readable |-> FALSE],
     [readable |-> TRUE, lines |-> <<>>],
     [readable |-> TRUE, lines |-> << <<"G","-","A","B","C","D","\n">> >>],
     [readable |-> TRUE, lines |-> << <<" ","g","-","a","b","c","d"," ","\n">>, <<"\n">> >>],
     [readable |-> TRUE, lines |-> << <<"d","e","l","t","a","1","\n">>, <<" "," ","\n">>,
                                     <<"Z","z","0","0","0","0">> >>]}
FavProbeIdentifiers ==
    {<<>>, IdGABCD, Lower(IdGABCD), Idzz0000, Upper(Idzz0000), Lower(CsDELTA1)}
FavProbeCallsigns ==
    {<<>>, <<" ">>, CsDELTA1, Lower(CsDELTA1), <<" ","D","e","l","t","a","1"," ">>,
     IdGABCD, <<"g","-","a","b","c","d"," ">>, Idzz0000, CsMILOPS}
FavProbeAircraft ==
    {Aircraft(i, c, <<>>) : i \in FavProbeIdentifiers, c \in FavProbeCallsigns}

InitFav ==
    /\ InitMonitor
    /\ probe \in FavProbeAircraft
    /\ verdict = "unset"

LoadFavourites ==
    /\ file_read = "none"
    /\ verdict = "unset"
    /\ \E file \in FavProbeFiles :
         /\ favourites' = load_favourites(file).items
         /\ file_read' = IF file.readable THEN "ok" ELSE "failed"
    /\ UNCHANGED <<pc, config, center_coords, active_aircraft, aircraft_data, idx,
                   current_alert_icaos, escaped, dispatches, fetch_status,
                   prev_status, prev_hits, start_active, geocode_calls, fetch_calls,
                   probe, verdict, prune_calls, sleep_calls>>

ClassifyFavourite ==
    /\ file_read # "none"
    /\ verdict = "unset"
    /\ verdict' = VerdictOf(is_favourite(probe, favourites))
    /\ UNCHANGED <<pc, config, center_coords, favourites, active_aircraft,
                   aircraft_data, idx, current_alert_icaos, escaped, dispatches,
                   fetch_status, prev_status, prev_hits, start_active, file_read,
                   geocode_calls, fetch_calls, probe,
                   prune_calls, sleep_calls>>

NextFav == LoadFavourites \/ ClassifyFavourite

SpecFav == InitFav /\ [][NextFav]_vars

\* C11: the loaded set holds only uppercased, trimmed, non-blank tokens, and
\* is_favourite is true exactly when the uppercased identifier or the
\* uppercased trimmed callsign is one of them; so the letter case of the
\* aircraft's fields does not matter, a blank callsign never matches, and
\* identifier "g-abcd" is a favourite under {"G-ABCD"}.
C11_FavouriteExactly ==
    /\ \A tok \in favourites : tok # <<>> /\ Upper(tok) = tok /\ Strip(tok) = tok
    /\ verdict # "unset" =>
          /\ verdict \in {"true", "false"}
          /\ (verdict = "true") <=>
                \E tok \in favourites : \/ tok = Upper(probe.icao24.s)
                                        \/ tok = Upper(Strip(probe.callsign.s))
          /\ Strip(probe.callsign.s) = <<>> =>
                ((verdict = "true") <=> Upper(probe.icao24.s) \in favourites)
          /\ \A v \in CaseVariants(probe) :
                VerdictOf(is_favourite(v, favourites)) = verdict
          /\ (favourites = {IdGABCD} /\ probe.icao24.s = Lower(IdGABCD))
                => verdict = "true"
\* The specification's example: identifier "g-abcd" under favourites {"G-ABCD"},
\* with a callsign that is no favourite.
C11_Witness ==
    /\ favourites = {IdGABCD}
    /\ probe.icao24.s = Lower(IdGABCD)
    /\ probe.callsign.s = CsDELTA1
    /\ verdict = "true"


\* ---------------------------------------------- the compass harness
\* Bearings are counted in tenths of a degree, so 22.5 is 225 and the range
\* [0, 360) is 0..3599; MaxBelow tenths below zero are probed as well.
MaxBelow == 3
directions ==
    << <<0, "N">>, <<225, "NNE">>, <<450, "NE">>, <<675, "ENE">>,
       <<900, "E">>, <<1125, "ESE">>, <<1350, "SE">>, <<1575, "SSE">>,
       <<1800, "S">>, <<2025, "SSW">>, <<2250, "SW">>, <<2475, "WSW">>,
       <<2700, "W">>, <<2925, "WNW">>, <<3150, "NW">>, <<3375, "NNW">> >>

\* sorted(q, reverse=True) on (limit, name) pairs with distinct limits.
RECURSIVE SortedReverse(_)
SortedReverse(q) ==
    IF q = <<>> THEN <<>>
    ELSE LET m == CHOOSE i \in 1..Len(q) : \A j \in 1..Len(q) : q[j][1] <= q[i][1]
         IN <<q[m]>> \o SortedReverse(SubSeq(q, 1, m - 1) \o SubSeq(q, m + 1, Len(q)))
SortedDirections == SortedReverse(directions)

\* The for loop of _bearing_to_cardinal from position i of the sorted list.
RECURSIVE FirstAbove(_, _)
FirstAbove(bearing, i) ==
    IF i > Len(SortedDirections) THEN "N"
    ELSE IF bearing > SortedDirections[i][1] THEN SortedDirections[i][2]
    ELSE FirstAbove(bearing, i + 1)
RECURSIVE FirstAtOrAbove(_, _)
FirstAtOrAbove(bearing, i) ==
    IF i > Len(SortedDirections) THEN "N"
    ELSE IF bearing >= SortedDirections[i][1] THEN SortedDirections[i][2]
    ELSE FirstAtOrAbove(bearing, i + 1)

_bearing_to_cardinal_strict(bearing) == FirstAbove(bearing, 1)
_bearing_to_cardinal(bearing) == FirstAtOrAbove(bearing, 1)

ProbeBearings == {Num(b) : b \in (0 - MaxBelow)..3599}

InitCard ==
    /\ InitMonitor
    /\ probe \in ProbeBearings
    /\ verdict = "unset"

Cardinal ==
    /\ verdict = "unset"
    /\ probe.t = "num"
    /\ verdict' = _bearing_to_cardinal(probe.n)
    /\ UNCHANGED <<pc, config, center_coords, favourites, active_aircraft,
                   aircraft_data, idx, current_alert_icaos, escaped, dispatches,
                   fetch_status, prev_status, prev_hits, start_active, file_read,
                   geocode_calls, fetch_calls, probe,
                   prune_calls, sleep_calls>>

NextCard == Cardinal

SpecCard == InitCard /\ [][NextCard]_vars

\* C12: _bearing_to_cardinal gives "N" for 0, "NNE" for 22.5 and "N" for 359.9.
C12_CardinalExamples ==
    verdict # "unset" =>
       /\ probe.n = 0 => verdict = "N"
       /\ probe.n = 225 => verdict = "NNE"
       /\ probe.n = 3599 => verdict = "N"

CompassLabels ==
    <<"N", "NNE", "NE", "ENE", "E", "ESE", "SE", "SSE",
      "S", "SSW", "SW", "WSW", "W", "WNW", "NW", "NNW">>

\* C17: for 0 <= b < 360 the result is the label of the greatest threshold
\* of 0, 22.5, ..., 337.5 that is <= b (the sector number is b div 22.5), so
\* it is one of the 16 labels and a bearing on a boundary gets the sector
\* starting there; a bearing below 0 gets "N".
C17_GreatestThresholdAtMost ==
    verdict # "unset" =>
       /\ \E k \in 1..16 : verdict = CompassLabels[k]
       /\ probe.n >= 0 =>
             /\ verdict = CompassLabels[(probe.n \div 225) + 1]
             /\ \E k \in 1..Len(directions) :
                   /\ directions[k][1] <= probe.n
                   /\ \A j \in 1..Len(directions) :
                         directions[j][1] <= probe.n => directions[j][1] <= directions[k][1]
                   /\ verdict = directions[k][2]
       /\ \A k \in 1..Len(directions) :
             probe.n = directions[k][1] => verdict = directions[k][2]
       /\ probe.n < 0 => verdict = "N"
\* A bearing exactly on the 45-degree boundary, mapped to "NE".
C17_Witness ==
    /\ probe.t = "num"
    /\ probe.n = 450
    /\ verdict = "NE"


\* ------------------------------------------- more on the polling loop
\* The identifier of the k-th dispatch of the cycle.
DispatchedId(k) == aircraft_data[dispatches[k].i][1]
\* The records examined so far in this cycle that satisfy the if condition.
ExaminedHits ==
    {j \in 1..Len(aircraft_data) :
       j < idx /\ IsHit(aircraft_data[j], center_coords, config, favourites)}

\* C13: records are handled in feed order and an alerted identifier is
\* marked active at once, so an identifier is dispatched at most once per
\* cycle: for its first hit record when it was not active at the start of
\* the cycle, also when the feed holds several hit records of it.
C13_OneDispatchPerIdentifier ==
    /\ \A k \in 1..Len(dispatches) :
          /\ dispatches[k].i < idx
          /\ DispatchedId(k) \in active_aircraft
          /\ \A l \in 1..Len(dispatches) :
                k < l => /\ dispatches[k].i < dispatches[l].i
                         /\ DispatchedId(k) # DispatchedId(l)
    /\ \A j \in ExaminedHits :
          aircraft_data[j][1] \notin start_active =>
             \E k \in 1..Len(dispatches) :
                /\ DispatchedId(k) = aircraft_data[j][1]
                /\ dispatches[k].i <= j
                /\ \A i \in ExaminedHits :
                      aircraft_data[i][1] = aircraft_data[j][1] => dispatches[k].i <= i
\* Two hit records of one identifier examined, and a single dispatch made.
C13_Witness ==
    /\ ExaminedHits = {1, 2}
    /\ aircraft_data[1][1] = aircraft_data[2][1]
    /\ Len(dispatches) = 1

\* C14: cycles follow one another as fetch, records, prune, sleep: at every
\* fetch each earlier cycle has pruned once and slept once, a prune comes
\* only when every record has been handled, and no dispatch follows it.
C14_CycleOrder ==
    /\ pc \in {"start", "returned"} =>
          fetch_calls = 0 /\ prune_calls = 0 /\ sleep_calls = 0
    /\ pc = "fetch" => prune_calls = fetch_calls /\ sleep_calls = fetch_calls
    /\ pc \in {"for", "crashed"} =>
          prune_calls = fetch_calls - 1 /\ sleep_calls = fetch_calls - 1
    /\ pc = "sleep" =>
          /\ prune_calls = fetch_calls
          /\ sleep_calls = fetch_calls - 1
          /\ idx > Len(aircraft_data)
          /\ \A k \in 1..Len(dispatches) : dispatches[k].i < idx
    /\ dispatches # <<>> => pc \in {"for", "sleep", "crashed"}
\* About to fetch again after a cycle whose fetch failed: pruned and slept.
C14_Witness ==
    /\ pc = "fetch"
    /\ FetchFailed(prev_status)
    /\ fetch_calls >= 1
    /\ sleep_calls = fetch_calls
    /\ prune_calls = fetch_calls

\* C15: identifiers are deduplicated without regard to letter case: no
\* dispatch is made for an identifier that, case aside, was in ActiveSet
\* when the cycle began.
C15_CaseInsensitiveDedup ==
    \A k \in 1..Len(dispatches) :
       \A a \in start_active : Upper(a.s) # Upper(DispatchedId(k).s)

\* C16: after startup no step changes the favourites, the centre or the
\* configuration (radius, interval, bounding box), and ActiveSet changes only
\* by adding the identifier of the hit record being examined or by being
\* intersected with the cycle's hits after the loop.
C16_OnlyActiveSetChanges ==
    [][/\ config' = config
       /\ pc # "start" =>
            /\ favourites' = favourites
            /\ center_coords' = center_coords
            /\ active_aircraft' # active_aircraft =>
                 \/ /\ pc = "for" /\ idx <= Len(aircraft_data)
                    /\ IsHit(aircraft_data[idx], center_coords, config, favourites)
                    /\ active_aircraft' = active_aircraft \cup {aircraft_data[idx][1]}
                 \/ /\ pc = "for" /\ pc' = "sleep"
                    /\ active_aircraft' = active_aircraft \cap current_alert_icaos]_vars
\* The end of a cycle that changed a non-empty ActiveSet, with favourites loaded.
C16_Witness ==
    /\ pc = "sleep"
    /\ start_active # {}
    /\ active_aircraft # start_active
    /\ favourites # {}

\* C18: an identifier whose dispatch failed or raised is marked active all
\* the same, and a dispatch is only ever made for an identifier that was not
\* in ActiveSet, which a cycle inherits unchanged from the one before; so a
\* failed notification is not retried while the identifier stays a hit.
C18_FailedDispatchNotRetried ==
    /\ \A k \in 1..Len(dispatches) :
          /\ ~dispatches[k].result.b => DispatchedId(k) \in active_aircraft
          /\ DispatchedId(k) \notin start_active
    /\ pc = "fetch" => start_active = active_aircraft
    /\ pc = "sleep" => \A k \in 1..Len(dispatches) : DispatchedId(k) \in active_aircraft
    /\ start_active \subseteq prev_hits
    /\ pc = "fetch" => active_aircraft = prev_hits
\* A cycle has ended with an identifier active whose notifier raised.
C18_Witness ==
    /\ pc = "sleep"
    /\ \E k \in 1..Len(dispatches) :
          /\ dispatches[k].outcome = "raise"
          /\ ~dispatches[k].result.b
          /\ DispatchedId(k) \in active_aircraft

\* C19: a cycle that fetched nothing (failure or no states) leaves ActiveSet
\* empty whatever it held, and in a cycle that follows a cycle without hits
\* every hit examined is notified, also one notified before.
C19_EmptyCycleForgets ==
    /\ (pc = "sleep" /\ aircraft_data = <<>>) => active_aircraft = {}
    /\ (fetch_calls >= 2 /\ prev_hits = {}) =>
          /\ start_active = {}
          /\ Alerted = {aircraft_data[j][1] : j \in ExaminedHits}
\* A failed fetch has just emptied an ActiveSet that held the previous hits.
C19_Witness ==
    /\ pc = "sleep"
    /\ FetchFailed(fetch_status)
    /\ prev_hits # {}
    /\ start_active = prev_hits
    /\ active_aircraft = {}


\* ------------------------------------------ _haversine_distance, rounded
\* The polling loop above only measures points a few kilometres from the
\* centre, where a is tiny.  For arbitrary coordinates the rounding of each
\* floating-point operation of lines 162-163 matters.  It is modelled here
\* with a coarser unit: a value x is the integer nearest to x * Unit and every
\* sin, cos and product is rounded to the nearest integer, as a double is
\* rounded to the nearest multiple of its last place.  Coordinates are whole
\* degrees.
Unit == 1000
MaxLatStep == 8

\* sin of 0, 5, ..., 90 degrees, rounded to the nearest 1/Unit.
SinTable ==
    <<0, 87, 174, 259, 342, 423, 500, 574, 643, 707, 766, 819, 866, 906, 940,
      966, 985, 996, 1000>>
\* sin(radians(deg)) for deg a multiple of 5.
Sin(deg) ==
    LET m == deg % 360
        h == IF m >= 180 THEN m - 180 ELSE m
        q == IF h > 90 THEN 180 - h ELSE h
        v == SinTable[(q \div 5) + 1]
    IN  IF m >= 180 THEN 0 - v ELSE v
Cos(deg) == Sin(deg + 90)
\* The rounded product of two values.
Times(x, y) ==
    LET p == x * y
    IN  IF p >= 0 THEN (2 * p + Unit) \div (2 * Unit)
        ELSE 0 - ((2 * (0 - p) + Unit) \div (2 * Unit))

\* Line 162, with dLat/2 and dLon/2 given in degrees.
haversine_a(lat1, lat2, halfdLat, halfdLon) ==
    Times(Sin(halfdLat), Sin(halfdLat))
      + Times(Times(Cos(lat1), Cos(lat2)), Times(Sin(halfdLon), Sin(halfdLon)))

\* Lines 154-164.  math.sqrt raises ValueError for a negative argument; the
\* code passes a and 1 - a as computed.  The distance R * c grows with a and
\* is returned here as the a it is computed from.
_haversine_distance_rounded(coord1, coord2) ==
    LET a == haversine_a(coord1.lat.n, coord2.lat.n,
                         (coord2.lat.n - coord1.lat.n) \div 2,
                         (coord2.lon.n - coord1.lon.n) \div 2)
    IN  IF a < 0 THEN Exc("ValueError")
        ELSE IF Unit - a < 0 THEN Exc("ValueError")
        ELSE [t |-> "km", a |-> a]

\* Latitudes every 10 degrees, longitudes every 90: every half difference is
\* a multiple of 5 degrees.
ProbeLatitudes == {10 * k : k \in (0 - MaxLatStep)..MaxLatStep}
ProbeLongitudes == {0 - 180, 0 - 90, 0, 90, 180}
ProbeCoords == {Coord(Num(lon), Num(lat)) : lon \in ProbeLongitudes, lat \in ProbeLatitudes}
ProbePairs == {[t |-> "pair", coord1 |-> c1, coord2 |-> c2] : c1 \in ProbeCoords, c2 \in ProbeCoords}

InitHav ==
    /\ InitMonitor
    /\ probe \in ProbePairs
    /\ verdict = None

Haversine ==
    /\ verdict = None
    /\ probe.t = "pair"
    /\ verdict' = _haversine_distance_rounded(probe.coord1, probe.coord2)
    /\ UNCHANGED <<pc, config, center_coords, favourites, active_aircraft,
                   aircraft_data, idx, current_alert_icaos, escaped, dispatches,
                   fetch_status, prev_status, prev_hits, start_active, file_read,
                   geocode_calls, fetch_calls, probe,
                   prune_calls, sleep_calls>>

NextHav == Haversine

SpecHav == InitHav /\ [][NextHav]_vars

\* C20: _haversine_distance raises for no pair of coordinates: sqrt(a) and
\* sqrt(1 - a) always get a non-negative argument.
C20_NeverRaises ==
    ~IsExc(verdict)

\* What does hold: coincident points give a = 0 and a distance.
C20_CoincidentIsZero ==
    (verdict # None /\ probe.coord1 = probe.coord2) =>
       verdict = [t |-> "km", a |-> 0]

====
